---- MODULE Spec2Model ----
(***************************************************************************)
(* A model of the editing core of xyproto/favicon: the sparse line buffer  *)
(* (map[int][]rune), the cursor/scroll position, Delete, the line          *)
(* insertion/deletion operations, InsertRune with word wrap,               *)
(* WrapAllLinesAt, the undo stack and the key loop of main.                *)
(*                                                                         *)
(* The editor is one record value; every method of *Editor is an operator  *)
(* from an editor record (and arguments) to the editor record it leaves.   *)
(* A Go map read of a missing key yields the nil slice, modelled by the    *)
(* empty sequence (At); presence of a key is DOMAIN membership (Has).      *)
(***************************************************************************)
EXTENDS Integers, Sequences, FiniteSets, TLC

\* ----------------------------------------------------------------- bounds

\* Canvas width and height of the terminal (vt100.Canvas W()/H()).
CanvasW == 4
CanvasH == 3
\* Longest file text (in runes) that Load is given.
MaxData == 3
\* Number of editing operations applied after the file is loaded.
MaxOps == 2
\* Number of keys read by the key loop, and longest image text it starts from.
MaxKeys == 4
MaxGrid == 2
\* Longest line of the documents that are word wrapped, and the number of
\* wrapping operations applied to them.
MaxLine == 6
MaxWrapOps == 2
\* Longest line and number of rows of the documents that are saved, and the
\* number of operations applied to them.
MaxSaveLine == 2
MaxSaveRows == 2
MaxDocOps == 2
\* Longest row, and widest tab, of the rows whose columns are mapped.
MaxTabLine == 3
MaxTabWidth == 2
\* Most lines of the documents that are scrolled, the largest scroll speed,
\* and the number of scroll and jump operations applied to them.
MaxScrollRows == 5
MaxScrollSpeed == 2
MaxScrollOps == 3

\* ------------------------------------------------------------------ runes

NUL == "0"
Letters == {"a"}
Rune == Letters \cup {" "}
NL == "\n"
CR == "\r"

\* unicode.IsSpace, on the runes of the model
\* The non-breaking space U+00A0
NBSP == "_"
IsSpace(r) == r \in {" ", "\t", NL, CR, NBSP}

\* ----------------------------------------------------- the line map (Go map)

Has(L, k) == k \in DOMAIN L
At(L, k) == IF k \in DOMAIN L THEN L[k] ELSE << >>
Put(L, k, v) == [i \in (DOMAIN L) \cup {k} |-> IF i = k THEN v ELSE L[i]]
Del(L, k) == [i \in (DOMAIN L) \ {k} |-> L[i]]
EmptyLines == [i \in {} |-> << >>]

Max(a, b) == IF a >= b THEN a ELSE b
Min(a, b) == IF a <= b THEN a ELSE b

\* s[:n] and s[n:] of a Go slice, for 0 <= n <= len(s)
Take(s, n) == SubSeq(s, 1, n)
Drop(s, n) == SubSeq(s, n + 1, Len(s))

\* ------------------------------------------------------------- the editor

NewPosition == [sx |-> 0, sy |-> 0, offset |-> 0, savedX |-> 0]

\* NewEditor sets word wrap to column 99; main lowers it to the canvas width
DefaultWordWrapAt == 99

NewEditor(textEditMode) ==
    [lines |-> EmptyLines, changed |-> FALSE, drawMode |-> ~textEditMode,
     pos |-> NewPosition, redraw |-> FALSE, redrawCursor |-> FALSE,
     wordWrapAt |-> DefaultWordWrapAt, fault |-> "none"]

\* main: "Adjust the word wrap if the terminal is too narrow"
AdjustWordWrap(e) ==
    IF CanvasW < e.wordWrapAt THEN [e EXCEPT !.wordWrapAt = CanvasW] ELSE e

\* A runtime panic (slice or index out of range) ends the program.
Panic(e) == [e EXCEPT !.fault = "panic"]
Faulted(e) == e.fault # "none"

\* Len: the highest key plus one, starting the search at maxy = 0
EditorLen(e) ==
    LET keys == {k \in DOMAIN e.lines : k > 0}
        maxy == IF keys = {} THEN 0 ELSE CHOOSE k \in keys : \A j \in keys : j <= k
    IN  maxy + 1

Line(e, n) == At(e.lines, n)

LastDataPosition(e, n) == Len(Line(e, n)) - 1

LastScreenPosition(e, n) == LastDataPosition(e, n)

RECURSIVE CountLeadingSpace(_)
CountLeadingSpace(s) ==
    IF s = << >> \/ ~IsSpace(Head(s)) THEN 0 ELSE 1 + CountLeadingSpace(Tail(s))

FirstScreenPosition(e, n) == CountLeadingSpace(Line(e, n))

\* A Set that appends the rune to a line that is too short, with no padding
SetUnpadded(e, x, y, r) ==
    LET old == At(e.lines, y)
    IN  [e EXCEPT !.lines = Put(e.lines, y, IF x < Len(old) THEN [old EXCEPT ![x + 1] = r]
                                            ELSE Append(old, r)),
                  !.changed = TRUE]

\* Set: store rune r at (x, y), padding the line with spaces up to x
Set(e, x, y, r) ==
    LET old == At(e.lines, y)
        padded == old \o [i \in 1..(x + 1 - Len(old)) |-> " "]
    IN  IF Faulted(e) THEN e
        ELSE IF x < 0 THEN Panic(e)
        ELSE [e EXCEPT !.lines = Put(e.lines, y, [padded EXCEPT ![x + 1] = r]),
                       !.changed = TRUE]

Get(e, x, y) ==
    IF ~Has(e.lines, y) THEN " "
    ELSE IF x >= Len(e.lines[y]) THEN " "
    ELSE e.lines[y][x + 1]

Clear(e) == [e EXCEPT !.lines = EmptyLines, !.changed = TRUE]

\* MakeConsistent: for i := 0; i < len(e.lines); i++ { add key i if missing }
RECURSIVE MakeConsistentFrom(_, _)
MakeConsistentFrom(e, i) ==
    IF i >= Cardinality(DOMAIN e.lines) THEN e
    ELSE IF Has(e.lines, i) THEN MakeConsistentFrom(e, i + 1)
    ELSE MakeConsistentFrom([e EXCEPT !.lines = Put(e.lines, i, << >>),
                                      !.changed = TRUE], i + 1)

\* With a negative key in the map the loop of MakeConsistent never ends:
\* len(e.lines) stays ahead of i for ever.
MakeConsistent(e) ==
    IF Faulted(e) THEN e
    ELSE IF \E k \in DOMAIN e.lines : k < 0 THEN [e EXCEPT !.fault = "hang"]
    ELSE MakeConsistentFrom(e, 0)

\* TrimRight: the last non-space position, or the last index when there is none
RECURSIVE LastNonSpace(_, _)
LastNonSpace(s, x) ==
    IF x < 1 THEN Len(s)
    ELSE IF ~IsSpace(s[x]) THEN x
    ELSE LastNonSpace(s, x - 1)

TrimRight(e, n) ==
    IF Faulted(e) \/ ~Has(e.lines, n) THEN e
    ELSE [e EXCEPT !.lines = Put(e.lines, n,
                       Take(e.lines[n], LastNonSpace(e.lines[n], Len(e.lines[n])))),
                   !.changed = TRUE]

\* DataY / DataX
DataY(e) == IF e.drawMode THEN e.pos.sy ELSE e.pos.offset + e.pos.sy

RECURSIVE DataXScan(_, _, _)
DataXScan(line, sx, counter) ==
    IF counter >= Len(line) THEN [x |-> counter, err |-> TRUE]
    ELSE IF counter = sx THEN [x |-> counter, err |-> FALSE]
    ELSE DataXScan(line, sx, counter + 1)

DataX(e) ==
    IF e.drawMode THEN [x |-> e.pos.sx, err |-> FALSE]
    ELSE DataXScan(At(e.lines, e.pos.offset + e.pos.sy), e.pos.sx, 0)

\* DataX of editor.go: as DataX, but a tab advances the screen counter by
\* e.spacesPerTab
TAB == "\t"

\* A DataX of the older Editor that counts a tab as one column
DataXTabAsOne(e) == DataXScan(At(e.lines, e.pos.offset + e.pos.sy), e.pos.sx, 0)

RECURSIVE DataXTabScan(_, _, _, _, _)
DataXTabScan(line, sx, tab, screenCounter, runeCounter) ==
    IF runeCounter >= Len(line) THEN [x |-> runeCounter, err |-> TRUE]
    ELSE IF screenCounter = sx THEN [x |-> runeCounter, err |-> FALSE]
    ELSE DataXTabScan(line, sx, tab,
                      screenCounter + (IF line[runeCounter + 1] = TAB THEN tab ELSE 1),
                      runeCounter + 1)

DataXTab(e) ==
    DataXTabScan(At(e.lines, e.pos.offset + e.pos.sy), e.pos.sx, e.spacesPerTab, 0, 0)

\* A DeleteLine that removes only the key n and moves no line
DeleteLineOnly(e, n) == [e EXCEPT !.lines = Del(e.lines, n), !.changed = TRUE]

\* DeleteLine: the last line is just removed from the map; any other line is
\* overwritten by shifting the later lines up
DeleteLine(e, n) ==
    IF Faulted(e) THEN e
    ELSE IF n >= EditorLen(e) - 1 THEN [e EXCEPT !.lines = Del(e.lines, n)]
    ELSE LET found == \E k \in DOMAIN e.lines : k > 0
             maxIndex == EditorLen(e) - 1
             shifted == [i \in ((DOMAIN e.lines) \cup (n..(maxIndex - 1))) \ {maxIndex} |->
                            IF i >= n /\ i <= maxIndex - 1 THEN At(e.lines, i + 1)
                            ELSE e.lines[i]]
         IN  IF ~found \/ ~Has(e.lines, maxIndex) THEN e
             ELSE MakeConsistent([e EXCEPT !.lines = shifted, !.changed = TRUE])

\* line[:x] of a Go slice. Within the length it is the prefix. Beyond the
\* length it depends on the capacity of the backing array, which the appends
\* and make calls of the history decide: either the bounds check panics, or the
\* slice is extended with whatever the array holds there (zero runes or stale
\* runes).
SliceTo(line, x) ==
    IF x < 0 THEN {[ok |-> FALSE, s |-> << >>]}
    ELSE IF x <= Len(line) THEN {[ok |-> TRUE, s |-> Take(line, x)]}
    ELSE {[ok |-> FALSE, s |-> << >>]} \cup
         {[ok |-> TRUE, s |-> line \o f] : f \in [1..(x - Len(line)) -> Rune \cup {NUL}]}

\* Delete: the set of editors Delete can leave
DeleteJoin(e, y, cut) ==
    LET e1 == [e EXCEPT !.lines = Put(e.lines, y, cut)]
        e2 == IF Has(e1.lines, y + 1) /\ Len(e1.lines[y + 1]) > 0
              THEN DeleteLine([e1 EXCEPT !.lines = Put(e1.lines, y, cut \o e1.lines[y + 1])], y + 1)
              ELSE e1
    IN  [e2 EXCEPT !.changed = TRUE]

Delete(e) ==
    LET y == DataY(e)
        line == At(e.lines, y)
        llen == Len(line)
        dx == DataX(e)
    IN  IF Faulted(e) THEN {e}
        ELSE IF ~Has(e.lines, y) \/ llen = 0 \/ (llen = 1 /\ IsSpace(line[1]))
        THEN {[DeleteLine(e, y) EXCEPT !.changed = TRUE]}
        ELSE IF dx.err \/ dx.x >= llen - 1
        THEN {IF c.ok THEN DeleteJoin(e, y, c.s) ELSE Panic(e) : c \in SliceTo(line, dx.x)}
        ELSE {MakeConsistent([e EXCEPT
                 !.lines = Put(e.lines, y, Take(line, dx.x) \o Drop(line, dx.x + 1)),
                 !.changed = TRUE])}

\* The loop "for i := len(e.lines); i > y; i--" of InsertLineAbove and
\* InsertLineBelowAt: delete empty (or missing) lines from the end, stop at
\* the first line with content
RECURSIVE SkipTrailing(_, _, _)
SkipTrailing(e, i, y) ==
    IF i <= y THEN e
    ELSE IF Len(At(e.lines, i)) = 0
    THEN SkipTrailing([e EXCEPT !.lines = Del(e.lines, i)], i - 1, y)
    ELSE e

\* The map lines2 of both insertions: keys up to "at" stay, an empty line is
\* put after key "at" when that key exists, later keys move down by one
ShiftedLines(L, at) ==
    [i \in {k \in DOMAIN L : k <= at} \cup {k + 1 : k \in {j \in DOMAIN L : j >= at}} |->
        IF i <= at THEN L[i]
        ELSE IF i = at + 1 THEN << >>
        ELSE L[i - 1]]

InsertLineAbove(e) ==
    LET y == DataY(e)
        e1 == MakeConsistent([e EXCEPT !.lines = ShiftedLines(e.lines, y - 1)])
        e2 == SkipTrailing(e1, Cardinality(DOMAIN e1.lines), y)
    IN  IF Faulted(e) THEN e
        ELSE IF Faulted(e1) THEN e1
        ELSE MakeConsistent([e2 EXCEPT !.changed = TRUE])

InsertLineBelowAt(e, y) ==
    LET e0 == MakeConsistent(e)
        e1 == MakeConsistent([e0 EXCEPT !.lines = ShiftedLines(e0.lines, y)])
        e2 == SkipTrailing(e1, Cardinality(DOMAIN e1.lines), y)
    IN  IF Faulted(e0) THEN e0
        ELSE IF y = Cardinality(DOMAIN e0.lines) - 1
        THEN [e0 EXCEPT !.lines = Put(e0.lines, y + 1, << >>), !.changed = TRUE]
        ELSE IF Faulted(e1) THEN e1
        ELSE MakeConsistent([e2 EXCEPT !.changed = TRUE])

InsertLineBelow(e) == InsertLineBelowAt(e, DataY(e))

\* ------------------------------------------------------------------- Load

\* bytes.Replace(data, "\r\n", "\n", -1)
RECURSIVE ReplaceCRLF(_)
ReplaceCRLF(d) ==
    IF d = << >> THEN << >>
    ELSE IF Len(d) >= 2 /\ d[1] = CR /\ d[2] = NL THEN <<NL>> \o ReplaceCRLF(Drop(d, 2))
    ELSE <<Head(d)>> \o ReplaceCRLF(Tail(d))

\* bytes.Replace(data, "\r", "\n", -1)
ReplaceCR(d) == [i \in 1..Len(d) |-> IF d[i] = CR THEN NL ELSE d[i]]

NormalizeLineEndings(d) ==
    IF \E i \in 1..Len(d) : d[i] = CR THEN ReplaceCR(ReplaceCRLF(d)) ELSE d

\* bytes.Split(data, "\n"): always at least one (possibly empty) element
RECURSIVE SplitLines(_)
SplitLines(d) ==
    IF \A i \in 1..Len(d) : d[i] # NL THEN <<d>>
    ELSE LET i == CHOOSE j \in 1..Len(d) : d[j] = NL /\ \A k \in 1..(j - 1) : d[k] # NL
         IN  <<Take(d, i - 1)>> \o SplitLines(Drop(d, i))

\* for _, letter := range line { e.Set(counter, y, letter); counter++ }
RECURSIVE SetLetters(_, _, _, _)
SetLetters(e, y, line, counter) ==
    IF counter >= Len(line) THEN e
    ELSE SetLetters(Set(e, counter, y, line[counter + 1]), y, line, counter + 1)

\* for y, dataline := range datalines { ... }
RECURSIVE SetDataLines(_, _, _)
SetDataLines(e, datalines, y) ==
    IF y >= Len(datalines) THEN e
    ELSE SetDataLines(SetLetters(e, y, datalines[y + 1], 0), datalines, y + 1)

\* Load of a file that is not an image: data is the text ioutil.ReadFile
\* returned, ok is false when reading failed
Load(e, data, ok) ==
    IF ~ok THEN e
    ELSE [SetDataLines(Clear(e), SplitLines(NormalizeLineEndings(data)), 0)
            EXCEPT !.changed = FALSE]

\* Load of an .ico or .png file: text is what ReadFavicon decoded
LoadImage(e, text, ok) ==
    IF ~ok THEN e
    ELSE [SetDataLines(Clear([e EXCEPT !.drawMode = TRUE]), SplitLines(text), 0)
            EXCEPT !.changed = FALSE]

\* PrepareEmpty for a file that is not an image: data is left empty
PrepareEmpty(e) ==
    [SetDataLines(Clear(e), SplitLines(<< >>), 0) EXCEPT !.changed = FALSE]

\* --------------------------------------------------------------- position

SetX(p, x) == [p EXCEPT !.sx = x]

\* Position.Up and Position.Down move the screen row inside the canvas
PosUp(p) == IF p.sy <= 0 THEN p ELSE [p EXCEPT !.sy = p.sy - 1]
PosDown(p) == IF p.sy + 1 >= CanvasH THEN p ELSE [p EXCEPT !.sy = p.sy + 1]

Right(p) == IF p.sx < CanvasW - 1 THEN [p EXCEPT !.sx = p.sx + 1] ELSE p
Left(p) == IF p.sx > 0 THEN [p EXCEPT !.sx = p.sx - 1] ELSE p

\* Next without the check of the width
NextUnchecked(e) == [e EXCEPT !.pos.sx = e.pos.sx + 1]

\* Next, called with the canvas: w is the canvas width
Next(e) ==
    IF e.pos.sx + 1 >= CanvasW THEN e ELSE [e EXCEPT !.pos.sx = e.pos.sx + 1]

Prev(e) ==
    IF e.pos.sx - 1 < 0 THEN e ELSE [e EXCEPT !.pos.sx = e.pos.sx - 1]

Home(e) == [e EXCEPT !.pos.sx = 0]

End(e) ==
    LET y == DataY(e)
        e1 == TrimRight(e, y)
    IN  [e1 EXCEPT !.pos.sx = LastScreenPosition(e1, y) + 1]

\* GoTo, called with the canvas (h is the canvas height)
GoTo(e, target) ==
    LET len == EditorLen(e)
        dataY == IF target < 0 THEN 0 ELSE IF target >= len THEN len - 1 ELSE target
        reachedEnd == target >= 0 /\ target >= len
        h == CanvasH
        topY == e.pos.offset
        botY == e.pos.offset + h
        prevY == e.pos.sy
        lessJumpOffset == dataY - prevY
        p == IF dataY >= topY /\ dataY < botY
             THEN [e.pos EXCEPT !.sy = dataY - e.pos.offset]
             ELSE IF dataY < h
             THEN [e.pos EXCEPT !.offset = 0, !.sy = dataY - 1]
             ELSE IF reachedEnd
             THEN [e.pos EXCEPT !.offset = len - h, !.sy = h - 1]
             ELSE IF prevY + lessJumpOffset < len
             THEN [e.pos EXCEPT !.sy = prevY, !.offset = lessJumpOffset]
             ELSE [e.pos EXCEPT !.sy = 0, !.offset = dataY]
        e1 == [e EXCEPT !.pos = p]
    IN  IF Faulted(e) \/ target = DataY(e) THEN e
        ELSE [e1 EXCEPT !.pos = SetX(p, FirstScreenPosition(e1, DataY(e1))),
                        !.redrawCursor = TRUE]

Up(e) == GoTo(e, DataY(e) - 1)
Down(e) == GoTo(e, DataY(e) + 1)

AtLastLineOfDocument(e) == DataY(e) >= EditorLen(e) - 1

AtOrAfterEndOfLine(e) ==
    LET dx == DataX(e) IN dx.err \/ dx.x >= LastDataPosition(e, DataY(e))

AfterEndOfLine(e) ==
    LET dx == DataX(e) IN dx.err \/ dx.x > LastDataPosition(e, DataY(e))

\* Empty: no lines, or one line that is only whitespace
Empty(e) ==
    \/ Cardinality(DOMAIN e.lines) = 0
    \/ /\ Cardinality(DOMAIN e.lines) = 1
       /\ \A k \in DOMAIN e.lines : \A i \in 1..Len(e.lines[k]) : IsSpace(e.lines[k][i])

CreateLineIfMissing(e, n) ==
    MakeConsistent(IF Has(e.lines, n) THEN e
                   ELSE [e EXCEPT !.lines = Put(e.lines, n, << >>), !.changed = TRUE])

SetRune(e, r) ==
    LET dx == DataX(e) IN IF dx.err THEN e ELSE Set(e, dx.x, DataY(e), r)

MaxOf(S) == CHOOSE m \in S : \A k \in S : k <= m

\* bytes.TrimRightFunc and strings.TrimRightFunc with unicode.IsSpace
RightTrimmed(s) ==
    LET keep == {i \in 1..Len(s) : ~IsSpace(s[i])}
    IN  Take(s, IF keep = {} THEN 0 ELSE MaxOf(keep))

\* SetLine: fill line n with the runes of s, removing what it held
SetLine(e, n, s) ==
    LET e1 == CreateLineIfMissing(e, n)
    IN  IF Faulted(e1) THEN e1
        ELSE SetLetters([e1 EXCEPT !.lines = Put(e1.lines, n, << >>)], n, s, 0)

\* SplitLine: split the line at the cursor; ret is the value returned
\* A SplitLine that keeps the whitespace at the end of the left part
SplitLineUntrimmed(e) ==
    LET dx == DataX(e)
        y == DataY(e)
        runeLine == Line(e, y)
    IN  IF Faulted(e) \/ dx.err \/ Len(runeLine) < 2 THEN [e |-> e, ret |-> FALSE]
        ELSE [e |-> SetLine(SetLine(InsertLineAbove(e), y, Take(runeLine, dx.x)),
                            y + 1, Drop(runeLine, dx.x)),
              ret |-> TRUE]

SplitLine(e) ==
    LET dx == DataX(e)
        y == DataY(e)
        runeLine == Line(e, y)
        left == RightTrimmed(Take(runeLine, dx.x))
        right == Drop(runeLine, dx.x)
    IN  IF Faulted(e) \/ dx.err \/ Len(runeLine) < 2 THEN [e |-> e, ret |-> FALSE]
        ELSE IF dx.x > Len(runeLine) THEN [e |-> Panic(e), ret |-> FALSE]
        ELSE [e |-> SetLine(SetLine(InsertLineAbove(e), y, left), y + 1, right),
              ret |-> TRUE]

\* DeleteRestOfLine
DeleteRestOfLine(e) ==
    LET dx == DataX(e)
        y == DataY(e)
    IN  IF dx.err \/ ~Has(e.lines, y) \/ dx.x >= Len(e.lines[y]) THEN e
        ELSE [e EXCEPT !.lines = Put(e.lines, y, Take(e.lines[y], dx.x)), !.changed = TRUE]

EmptyRightTrimmedLine(e) ==
    \A i \in 1..Len(Line(e, DataY(e))) : IsSpace(Line(e, DataY(e))[i])

AtStartOfTextLine(e) == e.pos.sx = FirstScreenPosition(e, DataY(e))

GoToStartOfTextLine(e) == [e EXCEPT !.pos = SetX(e.pos, FirstScreenPosition(e, DataY(e)))]

AfterLineScreenContentsPlusOne(e) == e.pos.sx > LastScreenPosition(e, DataY(e)) + 1

SaveX(e, regardless) ==
    IF regardless \/ (~AfterLineScreenContentsPlusOne(e) /\ e.pos.sx > 1)
    THEN [e EXCEPT !.pos.savedX = e.pos.sx]
    ELSE e

\* ----------------------------------------------------------------- scroll

\* A ScrollDown that reports a move at the end of the text too
ScrollDownAlways(e, scrollSpeed) == [e |-> e, ret |-> TRUE]

\* ScrollDown: canvasLastY is c.H() - 1
ScrollDown(e, scrollSpeed) ==
    LET canvasLastY == CanvasH - 1
        l == EditorLen(e)
        canScroll == IF e.pos.offset + scrollSpeed >= l - canvasLastY
                     THEN (l - canvasLastY) - e.pos.offset
                     ELSE scrollSpeed
    IN  IF e.pos.offset >= l - canvasLastY THEN [e |-> e, ret |-> FALSE]
        ELSE [e |-> [e EXCEPT !.pos.offset = e.pos.offset + canScroll], ret |-> TRUE]

ScrollUp(e, scrollSpeed) ==
    LET canScroll == IF e.pos.offset - scrollSpeed < 0 THEN e.pos.offset ELSE scrollSpeed
    IN  IF e.pos.offset = 0 THEN [e |-> e, ret |-> FALSE]
        ELSE [e |-> [e EXCEPT !.pos.offset = e.pos.offset - canScroll], ret |-> TRUE]

\* Center: scroll so that the line of the cursor is in the middle of the screen
Center(e) ==
    LET centerY == CanvasH \div 2
        newOffset == DataY(e) - centerY
        newScreenY == DataY(e) - newOffset
    IN  IF DataY(e) < centerY THEN e
        ELSE [e EXCEPT !.pos.offset = newOffset, !.pos.sy = newScreenY]

\* GoToLineNumber: line numbers count from 1
GoToLineNumber(e, lineNumber, center) ==
    IF center THEN Center(GoTo(e, lineNumber - 1)) ELSE GoTo(e, lineNumber - 1)

\* ------------------------------------------------------------------- Save

\* String: every line from 0 to Len()-1, each followed by a newline
RECURSIVE StringFrom(_, _)
StringFrom(e, i) ==
    IF i >= EditorLen(e) THEN << >> ELSE Line(e, i) \o <<NL>> \o StringFrom(e, i + 1)

String(e) == StringFrom(e, 0)

\* Save, for a text file: the loop that strips the trailing spaces of every
\* line of the editor, the data that is written, and the editor afterwards
RECURSIVE TrimLines(_, _)
TrimLines(e, i) == IF i >= EditorLen(e) THEN e ELSE TrimLines(TrimRight(e, i), i + 1)

\* bytes.Replace(data, {0xc2, 0xa0}, {0x20}, -1)
ReplaceNBSP(d) == [i \in 1..Len(d) |-> IF d[i] = NBSP THEN " " ELSE d[i]]

SaveData(e) == Append(ReplaceNBSP(RightTrimmed(String(TrimLines(e, 0)))), NL)

Save(e) == [TrimLines(e, 0) EXCEPT !.changed = FALSE]

\* -------------------------------------------------------------- word wrap

\* A limit that no line reaches
WithinLimitAlways(e, y) == TRUE

\* WithinLimit: a line is within the limit when it is shorter than wordWrapAt
WithinLimit(e, y) == Len(Line(e, y)) < e.wordWrapAt

\* LastWord: the last of the whitespace-separated fields of the line, or ""
LastWord(e, y) ==
    LET line == Line(e, y)
        ends == {i \in 1..Len(line) : ~IsSpace(line[i])}
        end == IF ends = {} THEN 0 ELSE MaxOf(ends)
        gaps == {i \in 1..end : IsSpace(line[i])}
        start == IF gaps = {} THEN 0 ELSE MaxOf(gaps)
    IN  SubSeq(line, start + 1, end)

\* SplitOvershoot: the part of line y within the limit, and the rest
SplitOvershoot(e, y, isSpace) ==
    LET line == Line(e, y)
        maxDistance == e.wordWrapAt \div 2
        spaces == {i \in 0..e.wordWrapAt : i < Len(line) /\ IsSpace(line[i + 1])}
        spacePosition == IF spaces = {} THEN -1 ELSE MaxOf(spaces)
        n == IF isSpace THEN DataX(e).x
             ELSE IF spacePosition # -1 /\ e.wordWrapAt - spacePosition <= maxDistance
             THEN spacePosition
             ELSE e.wordWrapAt
        second == Drop(line, n)
    IN  IF WithinLimit(e, y) THEN [first |-> line, second |-> << >>, ok |-> TRUE]
        ELSE IF n > Len(line) THEN [first |-> line, second |-> << >>, ok |-> FALSE]
        ELSE [first |-> Take(line, n),
              second |-> IF Len(second) > 0 /\ IsSpace(second[1]) THEN Tail(second)
                         ELSE second,
              ok |-> TRUE]

\* WrapAllLinesAt: the loop over the lines, from line i on. The arguments n
\* and maxOvershoot are not used by the code; the limit is e.wordWrapAt.
RECURSIVE WrapFrom(_, _, _)
WrapFrom(e, i, wrapped) ==
    IF Faulted(e) \/ i >= EditorLen(e) THEN [e |-> e, wrapped |-> wrapped]
    ELSE IF WithinLimit(e, i) THEN WrapFrom(e, i + 1, wrapped)
    ELSE LET sp == SplitOvershoot(e, i, FALSE)
             e1 == InsertLineBelowAt(e, i)
             e2 == [e1 EXCEPT !.lines = Put(Put(e1.lines, i, sp.first), i + 1, sp.second),
                              !.changed = TRUE]
             e3 == IF i < DataY(e2) THEN [e2 EXCEPT !.pos.sy = e2.pos.sy + 1] ELSE e2
         IN  IF ~sp.ok THEN [e |-> Panic(e), wrapped |-> TRUE]
             ELSE IF Len(sp.first) > 0 /\ Len(sp.second) > 0
             THEN IF Faulted(e1) THEN [e |-> e1, wrapped |-> TRUE]
                  ELSE WrapFrom(e3, i + 1, TRUE)
             ELSE WrapFrom(e, i + 1, TRUE)

WrapAllLinesAt(e, n, maxOvershoot) == WrapFrom(e, 0, FALSE)

\* Insert: insert a rune at the data position, with no word wrap
Insert(e, r) ==
    LET x == DataX(e).x
        y == DataY(e)
    IN  IF ~Has(e.lines, y) THEN [e EXCEPT !.lines = Put(e.lines, y, <<r>>)]
        ELSE IF Len(e.lines[y]) < x THEN e
        ELSE MakeConsistent([e EXCEPT
                 !.lines = Put(e.lines, y, Take(e.lines[y], x) \o <<r>> \o Drop(e.lines[y], x)),
                 !.changed = TRUE])

\* nextLine: go to the start of the next line
nextLine(e, y) == GoTo([e EXCEPT !.pos.sx = 0], y + 1)

\* insertBelow: put r at the start of the line below
insertBelow(e, y, r) ==
    IF ~Has(e.lines, y + 1) THEN [e EXCEPT !.lines = Put(e.lines, y + 1, <<r>>)]
    ELSE [e EXCEPT !.lines = Put(e.lines, y + 1, <<r>> \o e.lines[y + 1])]

\* A word shorter than this many runes is a short word
ShortWordLen == 10

\* The two branches of InsertRune that move the last word down
MoveWordDown(e, y, r, word, prevAtSpace) ==
    LET lastWord == Append(word, r)
        pos == Len(Line(e, y)) - Len(lastWord)
        cut == TrimRight([e EXCEPT !.lines = Put(e.lines, y, Take(Line(e, y), pos))], y)
        spaced == IF prevAtSpace THEN Append(Append(word, " "), r) ELSE lastWord
    IN  IF pos > 0
        THEN IF ~Has(cut.lines, y + 1)
             THEN [GoTo([cut EXCEPT !.lines = Put(cut.lines, y + 1, spaced)], y + 1)
                      EXCEPT !.pos.sx = Len(spaced) - 1]
             ELSE IF Len(cut.lines[y + 1]) > 0
             THEN [GoTo([cut EXCEPT !.lines = Put(cut.lines, y + 1,
                                                  lastWord \o cut.lines[y + 1])], y + 1)
                      EXCEPT !.pos.sx = Len(lastWord) - 1]
             ELSE [GoTo(cut, y + 1) EXCEPT !.pos.sx = Len(lastWord) - 1]
        ELSE IF ~Has(e.lines, y + 1)
             THEN nextLine([e EXCEPT !.lines = Put(e.lines, y + 1, <<r>>)], y)
             ELSE IF Len(e.lines[y + 1]) > 0
             THEN nextLine([e EXCEPT !.lines = Put(e.lines, y + 1, <<r>> \o e.lines[y + 1])], y)
             ELSE nextLine(e, y)

\* The case of the switch of InsertRune that is taken: "plain" is the insertion
\* before the switch, "default" the insertion of the default case
InsertRuneCase(e, r) ==
    LET y == DataY(e)
        line == Line(e, y)
        isSpace == IsSpace(r)
        dx == DataX(e)
        x == IF dx.err THEN e.pos.sx ELSE dx.x
        prevAtSpace == x > 0 /\ x <= Len(line) /\ IsSpace(line[x])
        atSpace == x >= 0 /\ x < Len(line) /\ IsSpace(line[x + 1])
        EOL == AtOrAfterEndOfLine(e)
        lastWord == LastWord(e, y)
        shortWord == Len(lastWord) < ShortWordLen /\ Len(lastWord) < e.wordWrapAt
    IN  IF e.wordWrapAt = 0 \/ WithinLimit(e, y) THEN "plain"
        ELSE IF ~EOL THEN "full"
        ELSE IF ~isSpace /\ ~atSpace /\ EOL THEN "word"
        ELSE IF isSpace /\ EOL THEN "space"
        ELSE IF \/ ~isSpace /\ EOL /\ ~shortWord
                \/ ~isSpace /\ prevAtSpace /\ EOL
                \/ ~isSpace /\ atSpace /\ ~prevAtSpace /\ EOL /\ shortWord
                \/ ~isSpace /\ ~atSpace /\ ~prevAtSpace /\ EOL /\ ~shortWord
        THEN "letter"
        ELSE IF ~isSpace /\ ~atSpace /\ ~prevAtSpace /\ EOL /\ shortWord THEN "word"
        ELSE "default"

\* InsertRune: insert a rune at the data position, with word wrap
InsertRune(e, r) ==
    LET y == DataY(e)
        line == Line(e, y)
        e0 == [e EXCEPT !.changed = TRUE, !.redrawCursor = TRUE, !.redraw = TRUE]
        dx == DataX(e)
        x == IF dx.err THEN e.pos.sx ELSE dx.x
        prevAtSpace == x > 0 /\ x <= Len(line) /\ IsSpace(line[x])
        lastWord == LastWord(e, y)
        branch == InsertRuneCase(e, r)
        full == TrimRight([e0 EXCEPT !.lines = Put(e0.lines, y, Take(line, x))], y)
        e1 == IF branch = "full"
              THEN [GoTo([full EXCEPT !.lines = Put(full.lines, y + 1, <<r>> \o Drop(line, x))],
                         y + 1)
                       EXCEPT !.pos.sx = 0]
              ELSE IF branch = "word"
              THEN MoveWordDown(e0, y, r, lastWord, prevAtSpace)
              ELSE IF branch = "space"
              THEN InsertLineBelowAt(e0, y)
              ELSE IF branch = "letter"
              THEN nextLine(insertBelow(e0, y, r), y)
              ELSE Insert(e0, r)
    IN  IF Faulted(e) THEN e
        ELSE IF branch = "plain" THEN Insert(e, r)
        ELSE MakeConsistent(TrimRight(e1, y))

\* ------------------------------------------------------------------- undo

\* Capacity of the undo buffer. main creates it with NewUndo(8192); the model
\* checks a small capacity so that the buffer fills up.
UndoSize == 2

\* A copy that allocates the lines but does not copy the runes into them
CopyLinesBlank(e) ==
    [k \in DOMAIN e.lines |-> [i \in 1..Len(e.lines[k]) |-> NUL]]

\* CopyLines: a new map with a copy of every line, rune by rune
CopyLines(e) ==
    [k \in DOMAIN e.lines |-> [i \in 1..Len(e.lines[k]) |-> e.lines[k][i]]]

\* Copy: a new Editor with the copied lines and the flags
Copy(e) == [lines |-> CopyLines(e), drawMode |-> e.drawMode, changed |-> e.changed]

NewUndo == << >>

\* A snapshot that is put on top of a full buffer without making room
SnapshotKeepAll(u, e) == Append(u, [ed |-> Copy(e), pos |-> e.pos])

\* Snapshot: store a copy of the document and the cursor, dropping the oldest
\* entry when the buffer is full
Snapshot(u, e) ==
    LET entry == [ed |-> Copy(e), pos |-> e.pos]
    IN  IF Len(u) >= UndoSize THEN Append(Tail(u), entry) ELSE Append(u, entry)

\* Restore: pop the most recent snapshot into the editor; NoHistory when empty
NoHistory(u) == u = << >>

Restore(u, e) ==
    LET top == u[Len(u)]
    IN  [e EXCEPT !.lines = top.ed.lines, !.drawMode = top.ed.drawMode,
                  !.changed = top.ed.changed, !.pos = top.pos]

Pop(u) == Take(u, Len(u) - 1)

\* ------------------------------------------------------------ the state

VARIABLES
    editor,   \* the Editor value e of main
    undo,     \* the Undo buffer: the stored snapshots, oldest first
    taken,    \* for each stored snapshot, the editor as it was when it was taken
    last,     \* the operation performed last and the editor before it
    msg,      \* the status bar message
    quit,     \* the loop variable of main
    task,     \* the detached goroutine
    ops,      \* the number of editing operations performed so far
    file      \* the text of the file on disk, and the lines it was written from

vars == <<editor, undo, taken, last, msg, quit, task, ops, file>>

NoTask == [pc |-> "none", i |-> 0, data |-> << >>, snap |-> << >>]

NoFile == [data |-> << >>, of |-> EmptyLines]

Did(name, e) ==
    [op |-> name, e |-> e, r |-> NUL, x |-> 0, y |-> 0, err |-> FALSE, ret |-> TRUE,
     snaps |-> 0, had |-> 0, shot |-> << >>, chg |-> "skipped"]

\* File texts handed to Load
DataRune == Rune \cup {NL, CR}
FileData == UNION {[1..n -> DataRune] : n \in 0..MaxData}

\* ------------------------------------------- Spec: the editor's operations

Init ==
    /\ editor \in {AdjustWordWrap(NewEditor(t)) : t \in BOOLEAN}
    /\ undo = << >>
    /\ taken = << >>
    /\ last = Did("NewEditor", AdjustWordWrap(NewEditor(TRUE)))
    /\ msg = ""
    /\ quit = FALSE
    /\ task = NoTask
    /\ file = NoFile
    /\ ops = 0

Alive == ~Faulted(editor)

\* main loads the file, or prepares an empty one, once, before the key loop
Starting == last.op = "NewEditor"

Rest == UNCHANGED <<undo, taken, msg, quit, file, task>>

Edit(name, e2) ==
    /\ Alive
    /\ ~Starting
    /\ ops < MaxOps
    /\ editor' = e2
    /\ last' = Did(name, editor)
    /\ ops' = ops + 1
    /\ Rest

Move(name, e2) ==
    /\ Alive
    /\ ~Starting
    /\ editor' = e2
    /\ last' = Did(name, editor)
    /\ UNCHANGED ops
    /\ Rest

Start(name, e2) ==
    /\ Starting
    /\ editor' = e2
    /\ last' = Did(name, editor)
    /\ UNCHANGED ops
    /\ Rest

DoLoad == \E d \in FileData : Start("Load", Load(editor, d, TRUE))
DoPrepareEmpty == Start("PrepareEmpty", PrepareEmpty(editor))
DoDelete == \E e2 \in Delete(editor) : Edit("Delete", e2)
DoDeleteLine == Edit("DeleteLine", DeleteLine(editor, DataY(editor)))
DoInsertLineAbove == Edit("InsertLineAbove", InsertLineAbove(editor))
DoInsertLineBelow == Edit("InsertLineBelow", InsertLineBelow(editor))
DoRight == Move("Right", [editor EXCEPT !.pos = Right(editor.pos)])
DoLeft == Move("Left", [editor EXCEPT !.pos = Left(editor.pos)])
DoNext == Move("Next", Next(editor))
DoPrev == Move("Prev", Prev(editor))
DoUp == Move("Up", Up(editor))
DoDown == Move("Down", Down(editor))

EditorStep ==
    \/ DoLoad
    \/ DoPrepareEmpty
    \/ DoDelete
    \/ DoDeleteLine
    \/ DoInsertLineAbove
    \/ DoInsertLineBelow
    \/ DoRight
    \/ DoLeft
    \/ DoUp
    \/ DoDown

Spec == Init /\ [][EditorStep]_vars

\* ------------------------------------------- SpecKeys: the key loop of main

\* The text of the image file the editor was started on
GridText == UNION {[1..n -> Rune \cup {NL}] : n \in 0..MaxGrid}

InitKeys ==
    /\ editor \in {LoadImage(AdjustWordWrap(NewEditor(TRUE)), t, TRUE) : t \in GridText}
    /\ undo = NewUndo
    /\ taken = << >>
    /\ last = Did("Load", AdjustWordWrap(NewEditor(TRUE)))
    /\ msg = "Loaded"
    /\ quit = FALSE
    /\ task = NoTask
    /\ file = NoFile
    /\ ops = 0

\* The ghost of Snapshot: the editor itself, as it is when the snapshot is taken
Remember(t, e) == IF Len(t) >= UndoSize THEN Append(Tail(t), e) ELSE Append(t, e)

\* Changed returns the changed flag
Changed(e) == e.changed

\* The end of one iteration of the loop: when e.redraw is not set, e.Changed()
\* is called; this is what it returned, or "skipped"
LoopChanged(e) == IF e.redraw THEN "skipped" ELSE IF Changed(e) THEN "true" ELSE "false"

\* The end of one iteration of the loop: the redraw flags are cleared
EndOfLoop(e) == [e EXCEPT !.redraw = FALSE, !.redrawCursor = FALSE]

JustMovedUpOrDown == last.op \in {"up", "down"}

\* A key whose handler starts with undo.Snapshot(e)
SnapKey(name, e2, m2) ==
    /\ Alive
    /\ ~quit
    /\ ops < MaxKeys
    /\ editor' = EndOfLoop(e2)
    /\ undo' = Snapshot(undo, editor)
    /\ taken' = Remember(taken, editor)
    /\ msg' = m2
    /\ last' = [Did(name, editor) EXCEPT !.snaps = 1, !.had = Len(undo),
                                          !.chg = LoopChanged(e2)]
    /\ ops' = ops + 1
    /\ UNCHANGED <<quit, file, task>>

\* A key whose handler takes no snapshot
PlainKey(name, e2) ==
    /\ Alive
    /\ ~quit
    /\ ops < MaxKeys
    /\ editor' = EndOfLoop(e2)
    /\ last' = [Did(name, editor) EXCEPT !.had = Len(undo), !.chg = LoopChanged(e2)]
    /\ ops' = ops + 1
    /\ UNCHANGED <<undo, taken, msg, quit, file, task>>

KeySpace == SnapKey("space", [SetRune(editor, " ") EXCEPT !.redraw = TRUE], msg)

KeyLetter ==
    \E r \in Letters : SnapKey("letter", [SetRune(editor, r) EXCEPT !.redraw = TRUE], msg)

KeyReturn ==
    SnapKey("return",
            LET e1 == IF AtLastLineOfDocument(editor)
                      THEN CreateLineIfMissing(editor, DataY(editor) + 1)
                      ELSE editor
            IN  [e1 EXCEPT !.pos = PosDown(e1.pos), !.redraw = TRUE],
            msg)

KeyBackspace ==
    SnapKey("backspace", [SetRune(Prev(editor), " ") EXCEPT !.redraw = TRUE], msg)

KeyCtrlA ==
    PlainKey("ctrl-a",
             LET dx == DataX(editor)
                 e1 == IF ~JustMovedUpOrDown /\ EmptyRightTrimmedLine(editor)
                       THEN End(Up(editor))
                       ELSE IF ~dx.err /\ dx.x = 0 /\ ~JustMovedUpOrDown
                       THEN End(Up(editor))
                       ELSE IF AtStartOfTextLine(editor)
                       THEN Home(editor)
                       ELSE GoToStartOfTextLine(editor)
             IN  SaveX(e1, TRUE))

KeyCtrlE ==
    PlainKey("ctrl-e",
             LET e1 == IF ~JustMovedUpOrDown /\ AfterEndOfLine(editor)
                       THEN End(Down(editor))
                       ELSE End(editor)
             IN  SaveX(e1, TRUE))

KeyCtrlD ==
    IF Empty(editor)
    THEN SnapKey("ctrl-d", editor, "Empty")
    ELSE \E e2 \in Delete(editor) : SnapKey("ctrl-d", [e2 EXCEPT !.redraw = TRUE], msg)

KeyCtrlK ==
    IF Empty(editor)
    THEN SnapKey("ctrl-k", editor, "Empty")
    ELSE SnapKey("ctrl-k", [DeleteRestOfLine(editor) EXCEPT !.redraw = TRUE], msg)

KeyCtrlX == SnapKey("ctrl-x", DeleteLine(editor, DataY(editor)), msg)

\* ctrl-u: undo.Restore(e), or the message when there is no history
KeyCtrlU ==
    /\ Alive
    /\ ~quit
    /\ ops < MaxKeys
    /\ IF NoHistory(undo)
       THEN /\ editor' = EndOfLoop(editor)
            /\ msg' = "No more to undo"
            /\ UNCHANGED <<undo, taken>>
            /\ last' = [Did("ctrl-u", editor) EXCEPT !.had = Len(undo),
                                                         !.chg = LoopChanged(editor)]
       ELSE /\ editor' = EndOfLoop(Restore(undo, editor))
            /\ undo' = Pop(undo)
            /\ taken' = Pop(taken)
            /\ UNCHANGED msg
            /\ last' = [Did("ctrl-u", editor) EXCEPT !.had = Len(undo),
                                                         !.shot = <<taken[Len(taken)]>>,
                                                         !.chg = "skipped"]
    /\ ops' = ops + 1
    /\ UNCHANGED <<quit, file, task>>

\* ctrl-s and, after setting quit, ctrl-~: e.Save writes the image, which
\* may fail; the status bar shows the error or "Saved"
SaveKey(name, q) ==
    /\ Alive
    /\ ~quit
    /\ ops < MaxKeys
    /\ \E ok \in BOOLEAN :
          /\ msg' = IF ok THEN "Saved" ELSE "error"
          /\ file' = IF ok THEN [data |-> String(editor), of |-> editor.lines] ELSE file
          /\ last' = [Did(name, editor) EXCEPT !.err = ~ok, !.had = Len(undo),
                                                !.chg = LoopChanged(editor)]
    /\ editor' = EndOfLoop(editor)
    /\ quit' = q
    /\ ops' = ops + 1
    /\ UNCHANGED <<undo, taken, task>>

KeyCtrlS == SaveKey("ctrl-s", quit)

KeyCtrlTilde == SaveKey("ctrl-~", TRUE)

KeyLeft == PlainKey("left", [editor EXCEPT !.pos = Left(editor.pos)])
KeyRight == PlainKey("right", [editor EXCEPT !.pos = Right(editor.pos)])
KeyUp == PlainKey("up", [editor EXCEPT !.pos = PosUp(editor.pos)])
KeyDown == PlainKey("down", [editor EXCEPT !.pos = PosDown(editor.pos)])

KeyStep ==
    \/ KeySpace
    \/ KeyLetter
    \/ KeyReturn
    \/ KeyBackspace
    \/ KeyCtrlA
    \/ KeyCtrlE
    \/ KeyCtrlD
    \/ KeyCtrlK
    \/ KeyCtrlX
    \/ KeyCtrlU
    \/ KeyCtrlS
    \/ KeyCtrlTilde
    \/ KeyLeft
    \/ KeyRight
    \/ KeyUp
    \/ KeyDown

SpecKeys == InitKeys /\ [][KeyStep]_vars

\* ------------------------------------- SpecWrap: typing with word wrap

\* The documents that are wrapped: a first line of any content, followed by
\* no line, an empty line or a line with a word; the cursor is on the first
\* line, in text mode.
WrapLines == UNION {[1..n -> Rune] : n \in 0..MaxLine}

WrapDocs ==
    {Put(EmptyLines, 0, l) : l \in WrapLines}
        \cup {Put(Put(EmptyLines, 0, l), 1, m) : l \in WrapLines, m \in {<< >>, <<"a">>}}

InitWrap ==
    /\ \E L \in WrapDocs : \E x \in 0..Len(L[0]) :
          editor = [AdjustWordWrap(NewEditor(TRUE)) EXCEPT !.lines = L, !.pos.sx = x]
    /\ undo = NewUndo
    /\ taken = << >>
    /\ last = Did("Load", AdjustWordWrap(NewEditor(TRUE)))
    /\ msg = ""
    /\ quit = FALSE
    /\ task = NoTask
    /\ file = NoFile
    /\ ops = 0

WrapOp(name, e2, r) ==
    /\ Alive
    /\ ops < MaxWrapOps
    /\ editor' = e2
    /\ last' = [Did(name, editor) EXCEPT !.r = r]
    /\ ops' = ops + 1
    /\ Rest

DoInsertRune == \E r \in Rune : WrapOp("InsertRune", InsertRune(editor, r), r)

\* e.WrapAllLinesAt(n, maxOvershoot): ctrl-w calls it with e.wordWrapAt - 5
\* and 5; the other arguments are those of a caller that wants another limit
DoWrapAllLinesAt ==
    \E n \in {editor.wordWrapAt - 5} \cup (1..(CanvasW - 1)), maxOvershoot \in {0, 5} :
        /\ Alive
        /\ ops < MaxWrapOps
        /\ editor' = WrapAllLinesAt(editor, n, maxOvershoot).e
        /\ last' = [Did("WrapAllLinesAt", editor) EXCEPT !.x = n, !.y = maxOvershoot]
        /\ ops' = ops + 1
        /\ Rest

\* The return key calls SplitLine when the editor is not in draw mode
DoSplitLine ==
    /\ ~editor.drawMode
    /\ Alive
    /\ ops < MaxWrapOps
    /\ editor' = SplitLine(editor).e
    /\ last' = [Did("SplitLine", editor) EXCEPT !.ret = SplitLine(editor).ret]
    /\ ops' = ops + 1
    /\ Rest

DoEnd ==
    /\ Alive
    /\ editor' = End(editor)
    /\ last' = Did("End", editor)
    /\ UNCHANGED ops
    /\ Rest

WrapStep ==
    \/ DoInsertRune
    \/ DoWrapAllLinesAt
    \/ DoSplitLine
    \/ DoEnd

SpecWrap == InitWrap /\ [][WrapStep]_vars

\* ------------------------- SpecPdf: the key loop and the PDF goroutines

InitPdf ==
    /\ editor \in {Load(AdjustWordWrap(NewEditor(TRUE)), t, TRUE) : t \in GridText}
    /\ undo = NewUndo
    /\ taken = << >>
    /\ last = Did("Load", AdjustWordWrap(NewEditor(TRUE)))
    /\ msg = "Loaded"
    /\ quit = FALSE
    /\ task = NoTask
    /\ file = NoFile
    /\ ops = 0

\* A key of the loop whose handler starts with undo.Snapshot(e)
PdfKey(name, e2) ==
    /\ Alive
    /\ ~quit
    /\ ops < MaxKeys
    /\ editor' = EndOfLoop(e2)
    /\ undo' = Snapshot(undo, editor)
    /\ taken' = Remember(taken, editor)
    /\ last' = [Did(name, editor) EXCEPT !.snaps = 1, !.had = Len(undo)]
    /\ ops' = ops + 1
    /\ UNCHANGED <<msg, quit, file, task>>

PdfKeyRune == \E r \in Rune : PdfKey("rune", Next(InsertRune(editor, r)))

PdfKeyCtrlD ==
    /\ ~Empty(editor)
    /\ \E e2 \in Delete(editor) : PdfKey("ctrl-d", e2)

PdfKeyCtrlX == PdfKey("ctrl-x", DeleteLine(editor, DataY(editor)))

\* ctrl-space on a Markdown file, or ctrl-r: the handler starts a goroutine
\* and the loop goes on. The goroutine is handed the editor itself; snap is
\* what a copy of the text made at this point would hold.
Spawn(name, pc, text) ==
    /\ Alive
    /\ ~quit
    /\ ops < MaxKeys
    /\ task.pc \in {"none", "done"}
    /\ task' = [pc |-> pc, i |-> 0, data |-> << >>, snap |-> text]
    /\ editor' = EndOfLoop(editor)
    /\ last' = Did(name, editor)
    /\ ops' = ops + 1
    /\ UNCHANGED <<undo, taken, msg, quit, file>>

PdfKeyCtrlSpace == Spawn("ctrl-space", "save", SaveData(editor))

PdfKeyCtrlR == Spawn("ctrl-r", "pdf", String(editor))

\* The pandoc goroutine, inside e.Save: one turn of the loop over the lines
TaskTrim ==
    /\ Alive
    /\ task.pc = "save"
    /\ task.i < EditorLen(editor)
    /\ editor' = TrimRight(editor, task.i)
    /\ task' = [task EXCEPT !.i = task.i + 1]
    /\ last' = Did("TaskTrim", editor)
    /\ UNCHANGED <<undo, taken, msg, quit, file, ops>>

\* The pandoc goroutine, inside e.Save: the text is taken from the editor,
\* the editor is marked as not changed, and the file is written
TaskWrite ==
    /\ Alive
    /\ task.pc = "save"
    /\ task.i >= EditorLen(editor)
    /\ editor' = [editor EXCEPT !.changed = FALSE]
    /\ task' = [task EXCEPT !.pc = "done", !.data = Append(ReplaceNBSP(RightTrimmed(String(editor))), NL)]
    /\ last' = Did("TaskWrite", editor)
    /\ UNCHANGED <<undo, taken, msg, quit, file, ops>>

\* The ctrl-r goroutine: e.SavePDF renders the text the editor holds
TaskSavePDF ==
    /\ Alive
    /\ task.pc = "pdf"
    /\ task' = [task EXCEPT !.pc = "done", !.data = String(editor)]
    /\ last' = Did("TaskSavePDF", editor)
    /\ UNCHANGED <<editor, undo, taken, msg, quit, file, ops>>

PdfStep ==
    \/ PdfKeyRune
    \/ PdfKeyCtrlD
    \/ PdfKeyCtrlX
    \/ PdfKeyCtrlSpace
    \/ PdfKeyCtrlR
    \/ TaskTrim
    \/ TaskWrite
    \/ TaskSavePDF

SpecPdf == InitPdf /\ [][PdfStep]_vars

\* ------------------------------- SpecDoc: Set, Save and Load of a text file

\* The documents: each of the first rows is missing from the map or holds a
\* line of letters, spaces and non-breaking spaces; text mode, not changed.
DocRune == Letters \cup {" ", NBSP}
DocLine == UNION {[1..n -> DocRune] : n \in 0..MaxSaveLine}
DocLines == UNION {[K -> DocLine] : K \in SUBSET (0..(MaxSaveRows - 1))}

InitDoc ==
    /\ editor \in {[AdjustWordWrap(NewEditor(TRUE)) EXCEPT !.lines = L] : L \in DocLines}
    /\ undo = NewUndo
    /\ taken = << >>
    /\ last = Did("Load", AdjustWordWrap(NewEditor(TRUE)))
    /\ msg = ""
    /\ quit = FALSE
    /\ task = NoTask
    /\ file = NoFile
    /\ ops = 0

\* e.Set(x, y, r)
DoSet ==
    /\ Alive
    /\ ops < MaxDocOps
    /\ \E x \in 0..MaxSaveLine, y \in 0..(MaxSaveRows + 1), r \in {"a", " "} :
          /\ editor' = Set(editor, x, y, r)
          /\ last' = [Did("Set", editor) EXCEPT !.x = x, !.y = y, !.r = r]
    /\ ops' = ops + 1
    /\ UNCHANGED <<undo, taken, msg, quit, task, file>>

\* e.Save of a text file: the lines are trimmed and the editor is marked as
\* not changed before ioutil.WriteFile is called, which may fail
DoSave ==
    /\ Alive
    /\ ops < MaxDocOps
    /\ \E ok \in BOOLEAN :
          /\ editor' = Save(editor)
          /\ file' = IF ok THEN [data |-> SaveData(editor), of |-> editor.lines] ELSE file
          /\ last' = [Did("Save", editor) EXCEPT !.err = ~ok]
    /\ ops' = ops + 1
    /\ UNCHANGED <<undo, taken, msg, quit, task>>

\* e.Load of the text file that was written; ioutil.ReadFile may fail
DoLoadFile ==
    /\ Alive
    /\ ops < MaxDocOps
    /\ file # NoFile
    /\ \E ok \in BOOLEAN :
          /\ editor' = Load(editor, file.data, ok)
          /\ last' = [Did("LoadFile", editor) EXCEPT !.err = ~ok]
    /\ ops' = ops + 1
    /\ UNCHANGED <<undo, taken, msg, quit, task, file>>

\* e.TrimRight(y)
DoTrimRight ==
    /\ Alive
    /\ ops < MaxDocOps
    /\ \E y \in 0..MaxSaveRows :
          /\ editor' = TrimRight(editor, y)
          /\ last' = [Did("TrimRight", editor) EXCEPT !.y = y]
    /\ ops' = ops + 1
    /\ UNCHANGED <<undo, taken, msg, quit, task, file>>

DocStep ==
    \/ DoSet
    \/ DoTrimRight
    \/ DoSave
    \/ DoLoadFile

SpecDoc == InitDoc /\ [][DocStep]_vars

\* --------------------------- SpecTab: the data column of a screen column

\* One row of letters and tabs in text mode, the cursor on any screen column
\* of it, and the tab width the older Editor was constructed with.
TabLines == UNION {[1..n -> Letters \cup {TAB}] : n \in 0..MaxTabLine}

InitTab ==
    /\ \E l \in TabLines, x \in 0..(MaxTabLine * MaxTabWidth), t \in 1..MaxTabWidth :
          editor = [spacesPerTab |-> t]
                      @@ [AdjustWordWrap(NewEditor(TRUE)) EXCEPT !.lines = Put(EmptyLines, 0, l),
                                                                  !.pos.sx = x]
    /\ undo = NewUndo
    /\ taken = << >>
    /\ last = Did("Load", AdjustWordWrap(NewEditor(TRUE)))
    /\ msg = ""
    /\ quit = FALSE
    /\ task = NoTask
    /\ file = NoFile
    /\ ops = 0

\* e.DataX() of the Editor that draws a tab as one blank
DoDataX ==
    /\ ops = 0
    /\ last' = [Did("DataX", editor) EXCEPT !.x = DataX(editor).x, !.err = DataX(editor).err]
    /\ ops' = 1
    /\ UNCHANGED <<editor, undo, taken, msg, quit, task, file>>

\* e.DataX() of the older Editor, which has spacesPerTab
DoDataXTab ==
    /\ ops = 0
    /\ last' = [Did("DataXTab", editor) EXCEPT !.x = DataXTab(editor).x,
                                                !.err = DataXTab(editor).err]
    /\ ops' = 1
    /\ UNCHANGED <<editor, undo, taken, msg, quit, task, file>>

\* e.SaveX(regardless)
DoSaveX ==
    /\ ops = 0
    /\ \E regardless \in BOOLEAN :
          /\ editor' = SaveX(editor, regardless)
          /\ last' = [Did("SaveX", editor) EXCEPT !.ret = regardless]
    /\ ops' = 1
    /\ UNCHANGED <<undo, taken, msg, quit, task, file>>

TabStep ==
    \/ DoDataX
    \/ DoDataXTab
    \/ DoSaveX

SpecTab == InitTab /\ [][TabStep]_vars

\* ------------------------------- SpecScroll: scrolling and jumping to a row

\* A document of some rows, in text mode or in draw mode, opened at its top
InitScroll ==
    /\ \E n \in 0..MaxScrollRows, t \in BOOLEAN :
          editor = [AdjustWordWrap(NewEditor(t)) EXCEPT !.lines = [i \in 0..(n - 1) |-> <<"a">>]]
    /\ undo = NewUndo
    /\ taken = << >>
    /\ last = Did("Load", AdjustWordWrap(NewEditor(TRUE)))
    /\ msg = ""
    /\ quit = FALSE
    /\ task = NoTask
    /\ file = NoFile
    /\ ops = 0

\* One call that moves the window or the cursor; ret is what it returned
ScrollOp(name, res, n) ==
    /\ Alive
    /\ ops < MaxScrollOps
    /\ editor' = res.e
    /\ last' = [Did(name, editor) EXCEPT !.ret = res.ret, !.y = n]
    /\ ops' = ops + 1
    /\ Rest

\* ctrl-n: e.ScrollDown(c, status, e.pos.scrollSpeed)
DoScrollDown == \E n \in 1..MaxScrollSpeed : ScrollOp("ScrollDown", ScrollDown(editor, n), n)

\* ctrl-p: e.ScrollUp(c, status, e.pos.scrollSpeed)
DoScrollUp == \E n \in 1..MaxScrollSpeed : ScrollOp("ScrollUp", ScrollUp(editor, n), n)

\* e.GoTo(t, c, status), which always returns true
DoGoTo ==
    \E t \in (0 - 1)..MaxScrollRows : ScrollOp("GoTo", [e |-> GoTo(editor, t), ret |-> TRUE], t)

\* e.Center(c)
DoCenter == ScrollOp("Center", [e |-> Center(editor), ret |-> TRUE], 0)

\* ctrl-l: e.GoToLineNumber(ln, c, status, true)
DoGoToLineNumber ==
    \E ln \in 0..(MaxScrollRows + 1) :
        ScrollOp("GoToLineNumber", [e |-> GoToLineNumber(editor, ln, TRUE), ret |-> TRUE], ln)

ScrollStep ==
    \/ DoScrollDown
    \/ DoScrollUp
    \/ DoGoTo
    \/ DoCenter
    \/ DoGoToLineNumber
    \/ DoRight
    \/ DoLeft
    \/ DoNext
    \/ DoPrev

SpecScroll == InitScroll /\ [][ScrollStep]_vars

\* ------------------------------------------------------------ the claims

\* The density invariant: every index in [0, Len()) is a key of the line map
Dense(e) == \A i \in 0..(EditorLen(e) - 1) : Has(e.lines, i)

RowInside(e) == DataY(e) >= 0 /\ DataY(e) < EditorLen(e)

\* C1: after InsertLineAbove, InsertLineBelow or DeleteLine at a row inside a
\* dense document, every index in [0, Len()) is a key of the line map, also
\* when the only remaining line is deleted.
C1_DenseAfterLineOps ==
    (/\ last.op \in {"InsertLineAbove", "InsertLineBelow", "DeleteLine"}
     /\ Dense(last.e)
     /\ RowInside(last.e))
    => Dense(editor)

\* C2: after Load or PrepareEmpty every index from 0 to Len()-1 is a key of
\* the line map, also the indices of lines that are empty in the file.
C2_DenseAfterLoad ==
    last.op \in {"Load", "PrepareEmpty"} => Dense(editor)

\* The cursor is on or past the last rune of its line
OnOrPastLastRune(e) ==
    LET dx == DataX(e) IN dx.err \/ dx.x >= Len(Line(e, DataY(e))) - 1

\* The cursor is at a column at or beyond the length of its line
AtOrBeyondLength(e) ==
    LET dx == DataX(e) IN dx.err \/ dx.x >= Len(Line(e, DataY(e)))

\* A line with content: present and not a lone whitespace rune or empty,
\* which Delete hands to DeleteLine
HasContent(e, y) ==
    /\ Has(e.lines, y)
    /\ Len(e.lines[y]) >= 1
    /\ ~(Len(e.lines[y]) = 1 /\ IsSpace(e.lines[y][1]))

\* C3: Delete with the cursor on or past the last rune of a non-empty line y
\* that has a following line makes line y its former runes followed by the
\* runes of line y+1, removes line y+1 and moves the later lines up by one.
C3_DeleteJoinsLines ==
    LET old == last.e
        y == DataY(old)
    IN  (/\ last.op = "Delete"
         /\ Dense(old)
         /\ HasContent(old, y)
         /\ Has(old.lines, y + 1)
         /\ OnOrPastLastRune(old))
        => /\ ~Faulted(editor)
           /\ EditorLen(editor) = EditorLen(old) - 1
           /\ Has(editor.lines, y)
           /\ editor.lines[y] = old.lines[y] \o old.lines[y + 1]
           /\ \A k \in DOMAIN old.lines :
                /\ k < y => (Has(editor.lines, k) /\ editor.lines[k] = old.lines[k])
                /\ k > y + 1 => (Has(editor.lines, k - 1) /\ editor.lines[k - 1] = old.lines[k])

\* C4: Delete with the cursor at a column at or beyond the length of a
\* non-empty line that has no following line leaves the line's runes unchanged
\* and removes no line, in text mode and in draw mode, and never slices the line
\* beyond its length.
C4_DeletePastEndOfLastLine ==
    LET old == last.e
        y == DataY(old)
    IN  (/\ last.op = "Delete"
         /\ HasContent(old, y)
         /\ ~Has(old.lines, y + 1)
         /\ AtOrBeyondLength(old))
        => /\ ~Faulted(editor)
           /\ editor.lines = old.lines

ContentKeys ==
    {"space", "letter", "return", "backspace", "ctrl-a", "ctrl-e", "ctrl-d",
     "ctrl-k", "ctrl-x", "left", "right", "up", "down"}

\* C6: when a key other than undo has changed the lines of the document, its
\* handler has taken exactly one snapshot, and that snapshot, now the newest
\* in the undo buffer, holds the lines as they were before the key.
C6_OneSnapshotPerChange ==
    (last.op \in ContentKeys /\ editor.lines # last.e.lines) =>
        /\ last.snaps = 1
        /\ undo # << >>
        /\ undo[Len(undo)].ed.lines = last.e.lines

\* C7: the undo buffer never holds more snapshots than its capacity: a
\* Snapshot on a full buffer drops the oldest entry and keeps the rest, and a
\* Restore on an empty buffer reports that there is no history and leaves the
\* document and the buffer as they were.
C7_UndoBounded ==
    /\ Len(undo) >= 0
    /\ Len(undo) <= UndoSize
    /\ (last.snaps = 1 /\ last.had = UndoSize) =>
        /\ Len(undo) = UndoSize
        /\ undo[UndoSize].ed.lines = last.e.lines
    /\ (last.snaps = 1 /\ last.had < UndoSize) => Len(undo) = last.had + 1
    /\ (last.op = "ctrl-u" /\ last.had = 0) =>
        /\ ~Faulted(editor)
        /\ msg = "No more to undo"
        /\ editor.lines = last.e.lines
        /\ editor.pos = last.e.pos
        /\ undo = << >>
    /\ (last.op = "ctrl-u" /\ last.had > 0) => Len(undo) = last.had - 1

\* A Snapshot on a full buffer, in a run where a Restore found no history
C7_FullThenSnapshot ==
    /\ last.snaps = 1
    /\ last.had = UndoSize
    /\ msg = "No more to undo"

TaskSteps == {"TaskTrim", "TaskWrite", "TaskSavePDF"}

\* C8: a step of a PDF goroutine leaves the editor of the key loop as it is,
\* and the text the goroutine has used when it is done is the text the
\* document held when the goroutine was started.
C8_TaskUsesCopy ==
    /\ last.op \in TaskSteps => editor.lines = last.e.lines
    /\ task.pc = "done" => task.data = task.snap

\* The cursor is at the end of a line that has reached the wrap threshold
\* and ends in a short word
EndsInShortWord(e) ==
    LET y == DataY(e)
    IN  /\ ~e.drawMode
        /\ Has(e.lines, y)
        /\ Len(e.lines[y]) >= e.wordWrapAt
        /\ e.pos.sx = Len(e.lines[y])
        /\ ~IsSpace(e.lines[y][Len(e.lines[y])])
        /\ Len(LastWord(e, y)) < ShortWordLen
        /\ Len(LastWord(e, y)) < e.wordWrapAt

\* C9: a letter typed at the end of a line that has reached the wrap
\* threshold and ends in a short word takes the word off the line, which is
\* left right-trimmed, and puts the word and the letter at the start of the
\* next line, in front of what that line held, with the cursor on the next
\* line after the word.
C9_ShortWordMovesDown ==
    (last.op = "InsertRune" /\ last.r \in Letters /\ EndsInShortWord(last.e)) =>
        LET old == last.e
            y == DataY(old)
            word == LastWord(old, y)
        IN  /\ ~Faulted(editor)
            /\ Line(editor, y) = RightTrimmed(Take(old.lines[y], Len(old.lines[y]) - Len(word)))
            /\ Line(editor, y + 1) = word \o <<last.r>> \o Line(old, y + 1)
            /\ DataY(editor) = y + 1
            /\ editor.pos.sx \in {Len(word), Len(word) + 1}

\* C10: after WrapAllLinesAt, a second WrapAllLinesAt with the same limit
\* leaves the lines of the document as they are.
C10_WrapTwiceSame ==
    (last.op = "WrapAllLinesAt" /\ ~Faulted(editor)) =>
        WrapAllLinesAt(editor, editor.wordWrapAt - 5, 5).e.lines = editor.lines

\* C11: when the text Save has written is loaded back, every line of the
\* loaded document is, trailing whitespace aside, the line at the same index
\* of the document that was saved.
C11_SaveLoadRoundTrip ==
    (last.op = "LoadFile" /\ ~last.err) =>
        \A i \in 0..(MaxSaveRows + 2) :
            RightTrimmed(Line(editor, i)) = RightTrimmed(At(file.of, i))

\* The rows of a line map that hold something other than whitespace
ContentRows(L) == {k \in DOMAIN L : RightTrimmed(L[k]) # << >>}

\* C12: the text a successful Save has written ends in exactly one newline,
\* has no line that ends in a whitespace rune, and has one line for every
\* row of the document up to the last row with content.
C12_SavedTextNormalized ==
    (last.op = "Save" /\ ~last.err) =>
        LET d == file.data
            body == Take(d, Len(d) - 1)
        IN  /\ Len(d) >= 1
            /\ d[Len(d)] = NL
            /\ Len(d) >= 2 => d[Len(d) - 1] # NL
            /\ \A j \in 2..Len(d) : d[j] = NL => (d[j - 1] = NL \/ ~IsSpace(d[j - 1]))
            /\ IF ContentRows(file.of) = {} THEN body = << >>
               ELSE Len(SplitLines(body)) = MaxOf(ContentRows(file.of)) + 1

\* C13: after a Load or a Save that failed with an I/O error, the lines, the
\* draw mode flag and the changed flag of the editor are what they were before
\* the call.
C13_FailureLeavesDocument ==
    (last.op \in {"Save", "LoadFile"} /\ last.err) =>
        /\ editor.lines = last.e.lines
        /\ editor.drawMode = last.e.drawMode
        /\ editor.changed = last.e.changed

\* C14: when Save has failed for the save key or for the save-and-quit key,
\* the status bar shows the error and the key loop goes on: quit is false.
C14_SaveFailureKeepsLoop ==
    (last.op \in {"ctrl-s", "ctrl-~"} /\ last.err) =>
        /\ msg = "error"
        /\ ~quit

\* C15: after Set(x, y, r) with x, y >= 0, Get(x, y) is r, line y exists and
\* is as long as the longer of its old length and x+1, the columns from the
\* old length up to x-1 hold spaces, the other old columns and all other
\* lines are as before, and the document is marked as changed.
C15_SetStoresRune ==
    last.op = "Set" =>
        LET old == last.e
            x == last.x
            y == last.y
            was == Line(old, y)
        IN  /\ ~Faulted(editor)
            /\ Get(editor, x, y) = last.r
            /\ Has(editor.lines, y)
            /\ Len(editor.lines[y]) = Max(Len(was), x + 1)
            /\ \A c \in Len(was)..(x - 1) : editor.lines[y][c + 1] = " "
            /\ \A c \in 0..(Len(was) - 1) : c # x => editor.lines[y][c + 1] = was[c + 1]
            /\ DOMAIN editor.lines = DOMAIN old.lines \cup {y}
            /\ \A k \in DOMAIN old.lines : k # y => editor.lines[k] = old.lines[k]
            /\ editor.changed

\* Set has padded a line that was there and was too short for column x
C15_SetPadded ==
    /\ last.op = "Set"
    /\ Has(last.e.lines, last.y)
    /\ last.x > Len(last.e.lines[last.y])
    /\ last.r = "a"
    /\ ~last.e.changed

\* C16: after a letter or a space has been typed in draw mode into a
\* document where every index below Len() was present, every index below
\* Len() is present.
C16_DenseAfterSetRune ==
    (last.op \in {"letter", "space"} /\ Dense(last.e)) => Dense(editor)

\* C17: Len() is the highest present line index plus one, and 0 for a
\* document with no lines.
C17_LenHighestPlusOne ==
    EditorLen(editor) = IF DOMAIN editor.lines = {} THEN 0
                        ELSE MaxOf(DOMAIN editor.lines) + 1

\* C18: after InsertLineBelowAt(y) on a document with every index present
\* and y inside it, lines 0..y are as before, index y+1 holds an empty line,
\* every line that was after y is one index further down, and a missing
\* index after y+1 stands only for empty lines that were at the end.
C18_InsertLineBelowKeepsLine ==
    (last.op = "InsertLineBelow" /\ Dense(last.e) /\ RowInside(last.e)) =>
        LET old == last.e
            y == DataY(old)
        IN  /\ ~Faulted(editor)
            /\ \A i \in 0..y : Has(editor.lines, i) /\ editor.lines[i] = old.lines[i]
            /\ Has(editor.lines, y + 1)
            /\ editor.lines[y + 1] = << >>
            /\ \A i \in (y + 1)..(EditorLen(old) - 1) :
                  IF Has(editor.lines, i + 1) THEN editor.lines[i + 1] = old.lines[i]
                  ELSE \A j \in i..(EditorLen(old) - 1) : old.lines[j] = << >>

\* C19: after DeleteLine(y) on a document of two or more lines with every
\* index present and y inside it, Len() is one less, the lines before y are
\* as before and every line from y on is the line that was one index below.
C19_DeleteLineShiftsUp ==
    (last.op = "DeleteLine" /\ Dense(last.e) /\ RowInside(last.e)
        /\ EditorLen(last.e) >= 2) =>
        LET old == last.e
            y == DataY(old)
        IN  /\ ~Faulted(editor)
            /\ EditorLen(editor) = EditorLen(old) - 1
            /\ \A i \in 0..(y - 1) : Line(editor, i) = Line(old, i)
            /\ \A i \in y..EditorLen(old) : Line(editor, i) = Line(old, i + 1)

\* DeleteLine has removed a line that had lines after it
C19_DeletedInside ==
    /\ last.op = "DeleteLine"
    /\ Dense(last.e)
    /\ DataY(last.e) < EditorLen(last.e) - 1
    /\ Line(last.e, DataY(last.e)) # Line(last.e, DataY(last.e) + 1)

C21_TrimRightLongestPrefix ==
    (last.op = "TrimRight" /\ Has(last.e.lines, last.y)) =>
        LET old == last.e.lines[last.y]
        IN  /\ Has(editor.lines, last.y)
            /\ LET new == editor.lines[last.y]
               IN  /\ new = Take(old, Len(new))
                   /\ Len(new) = 0 \/ ~IsSpace(new[Len(new)])
                   /\ \A i \in (Len(new) + 1)..Len(old) : IsSpace(old[i])
            /\ DOMAIN editor.lines = DOMAIN last.e.lines
            /\ \A k \in DOMAIN editor.lines \ {last.y} : editor.lines[k] = last.e.lines[k]

\* The screen column at which data index d of a row starts, when a tab is
\* tab columns wide
StartColumn(line, d, tab) ==
    d + (tab - 1) * Cardinality({i \in 1..d : line[i] = TAB})

OffsetInRange(e) ==
    /\ e.pos.offset >= 0
    /\ e.pos.offset <= Max(0, EditorLen(e) - CanvasH)

\* C23: a ScrollDown or ScrollUp that starts with the scroll offset between 0
\* and max(0, Len() - viewport height) leaves it between these, so that no
\* sequence of them takes the offset out of this range.
C23_ScrollOffsetInRange ==
    (last.op \in {"ScrollDown", "ScrollUp"} /\ OffsetInRange(last.e)) => OffsetInRange(editor)

\* C24: ScrollDown and ScrollUp return true exactly when they changed the
\* scroll offset, and change neither the screen row, nor the screen column,
\* nor the lines.
C24_ScrollReportsMove ==
    last.op \in {"ScrollDown", "ScrollUp"} =>
        /\ last.ret <=> (editor.pos.offset # last.e.pos.offset)
        /\ editor.pos.sx = last.e.pos.sx
        /\ editor.pos.sy = last.e.pos.sy
        /\ editor.lines = last.e.lines

\* ScrollDown has found the window at the end of the text and returned false
C24_ScrollDownAtEnd ==
    /\ last.op = "ScrollDown"
    /\ ~last.ret
    /\ last.e.pos.offset > 0
    /\ editor.pos.offset = last.e.pos.offset

\* C25: after GoTo(t) in text mode the data row of the cursor is t clamped
\* into [0, Len() - 1], whatever the scroll offset and the screen row were.
C25_GoToReachesRow ==
    (last.op = "GoTo" /\ ~last.e.drawMode) =>
        DataY(editor) = Max(0, Min(last.y, EditorLen(last.e) - 1))

\* The keys whose handlers only move the screen position
MoveKeys == {"left", "right", "up", "down"}

\* C26: Changed() returns true only if the contents were changed since it
\* was called before: when it returned true at the end of one iteration of
\* the key loop and the next key is an arrow key, which only moves the
\* screen position, it does not return true at the end of that iteration.
C26_ChangedOnlyAfterEdit ==
    [][(last.chg = "true" /\ last'.op \in MoveKeys /\ editor'.lines = editor.lines)
          => last'.chg # "true"]_vars

\* Word wrap is active and the line of the cursor has reached the threshold
OverThreshold(e) ==
    /\ ~e.drawMode
    /\ e.wordWrapAt > 0
    /\ Len(Line(e, DataY(e))) >= e.wordWrapAt

\* C27: InsertRune with word wrap active, the line of the cursor at or over
\* the threshold and the cursor before the end of the line leaves on line y
\* the right-trimmed text left of the cursor, puts the rune and the text from
\* the cursor on at the start of line y+1, in front of what that line held,
\* and moves the cursor to column 0 of line y+1.
C27_FullLineMovesRest ==
    (last.op = "InsertRune" /\ OverThreshold(last.e) /\ ~AtOrAfterEndOfLine(last.e)) =>
        LET old == last.e
            y == DataY(old)
            x == old.pos.sx
        IN  /\ ~Faulted(editor)
            /\ Line(editor, y) = RightTrimmed(Take(Line(old, y), x))
            /\ Line(editor, y + 1) = <<last.r>> \o Drop(Line(old, y), x) \o Line(old, y + 1)
            /\ DataY(editor) = y + 1
            /\ editor.pos.sx = 0

\* C28: InsertRune of a rune that is not a space, with the cursor after the
\* last rune of a line at or over the threshold that ends in a space or in a
\* word of ShortWordLen runes or more, puts only the rune at the start of
\* line y+1 and moves the cursor there; line y keeps its text.
C28_OnlyRuneMovesDown ==
    LET old == last.e
        y == DataY(old)
        line == Line(old, y)
    IN  (/\ last.op = "InsertRune"
         /\ ~IsSpace(last.r)
         /\ OverThreshold(old)
         /\ old.pos.sx = Len(line)
         /\ (IsSpace(line[Len(line)]) \/ Len(LastWord(old, y)) >= ShortWordLen))
        =>
            /\ ~Faulted(editor)
            /\ RightTrimmed(Line(editor, y)) = RightTrimmed(line)
            /\ Line(editor, y + 1) = <<last.r>> \o Line(old, y + 1)
            /\ DataY(editor) = y + 1
            /\ editor.pos.sx = 0

\* C29: after InsertRune, through any of its branches, the line the cursor
\* was on does not end in a whitespace rune and every index in [0, Len()) is
\* a key of the line map.
C29_TrimmedAndDenseAfterInsertRune ==
    last.op = "InsertRune" =>
        LET line == Line(editor, DataY(last.e))
        IN  /\ ~Faulted(editor)
            /\ Len(line) = 0 \/ ~IsSpace(line[Len(line)])
            /\ Dense(editor)

\* The length of the longest word of the document
LongestWord(e) ==
    MaxOf({0} \cup {j - i + 1 : <<k, i, j>> \in
                       {t \in (DOMAIN e.lines) \X (1..MaxLine + 2) \X (1..MaxLine + 2) :
                           /\ t[2] <= t[3]
                           /\ t[3] <= Len(e.lines[t[1]])
                           /\ \A n \in t[2]..t[3] : ~IsSpace(e.lines[t[1]][n])}})

\* No line is longer than the wrap threshold plus the longest word
LinesBounded(e) ==
    \A k \in DOMAIN e.lines : Len(e.lines[k]) <= e.wordWrapAt + LongestWord(e)

\* C30: with word wrap active, InsertRune on a document that has no line
\* longer than the wrap threshold plus the length of its longest word gives
\* such a document again, so that typing never makes a longer line.
C30_LinesStayBounded ==
    (last.op = "InsertRune" /\ last.e.wordWrapAt > 0 /\ LinesBounded(last.e))
        => LinesBounded(editor)

\* The column at which a line longer than limit is split: the last whitespace
\* rune at or before column limit when it is within maxOvershoot runes of
\* limit, and limit otherwise
SplitColumn(line, limit, maxOvershoot) ==
    LET spaces == {i \in 0..limit : i < Len(line) /\ IsSpace(line[i + 1])}
    IN  IF spaces # {} /\ limit - MaxOf(spaces) <= maxOvershoot THEN MaxOf(spaces) ELSE limit

\* C31: WrapAllLinesAt(limit, maxOvershoot) leaves of a first line longer
\* than limit the runes before the split column that the two arguments
\* determine, and leaves a first line of at most limit runes as it is.
C31_WrapUsesArguments ==
    (last.op = "WrapAllLinesAt" /\ last.x >= 1 /\ Has(last.e.lines, 0)) =>
        LET line == last.e.lines[0]
        IN  /\ ~Faulted(editor)
            /\ Line(editor, 0) = IF Len(line) > last.x
                                 THEN Take(line, SplitColumn(line, last.x, last.y))
                                 ELSE line

\* C32: SaveX(true) sets savedX to the screen column; SaveX(false) sets it
\* too when the cursor is not past the end of the line, at every column, and
\* leaves savedX as it is when the cursor is past the end of the line.
C32_SaveXUnlessParked ==
    last.op = "SaveX" =>
        editor.pos.savedX = IF last.ret \/ ~AfterLineScreenContentsPlusOne(last.e)
                            THEN last.e.pos.sx
                            ELSE last.e.pos.savedX

\* C33: Center keeps the cursor on its data row, in text mode and in draw
\* mode; when the row is at least half the viewport height the offset becomes
\* the row less h/2 and the screen row h/2, otherwise the position is as
\* before; the lines and the screen column do not change.
C33_CenterKeepsRow ==
    last.op = "Center" =>
        LET old == last.e
            row == DataY(old)
            half == CanvasH \div 2
        IN  /\ DataY(editor) = row
            /\ IF row >= half
               THEN editor.pos.offset = row - half /\ editor.pos.sy = half
               ELSE editor.pos = old.pos
            /\ editor.lines = old.lines
            /\ editor.pos.sx = old.pos.sx

\* C34: in draw mode the line that SetRune writes to, DataY(), is the line
\* the screen shows at the row of the cursor, scroll offset + screen row.
C34_DrawModeNotScrolled ==
    editor.drawMode => DataY(editor) = editor.pos.offset + editor.pos.sy

\* C37: the scroll offset is at least 0 and the screen row is at least 0 and
\* less than the viewport height, after any sequence of GoTo, GoToLineNumber,
\* ScrollUp, ScrollDown and Center.
C37_WindowInRange ==
    /\ editor.pos.offset >= 0
    /\ editor.pos.sy >= 0
    /\ editor.pos.sy < CanvasH

\* C38: a screen column inside the canvas stays inside it after
\* Position.Left, Position.Right, Editor.Next and Editor.Prev, and none of
\* the four changes the screen row, the scroll offset or a line
HorizontalMoves == {"Left", "Right", "Next", "Prev"}

Occurrences(e, r) ==
    Cardinality({p \in UNION {{<<k, i>> : i \in 1..Len(e.lines[k])} : k \in DOMAIN e.lines} :
                    e.lines[p[1]][p[2]] = r})

\* C35: no call of InsertRune loses text: each rune that is not whitespace
\* occurs after the call as often as before it, and the inserted rune once more
C35_InsertRuneKeepsText ==
    (last.op = "InsertRune" /\ ~Faulted(last.e) /\ ~Faulted(editor))
        => \A r \in Rune \ {" "} :
              Occurrences(editor, r) = Occurrences(last.e, r) + (IF r = last.r THEN 1 ELSE 0)

\* C36: with word wrap on and a current line of at least wordWrapAt runes,
\* InsertRune takes a case of its switch that restructures the lines, never
\* the plain insertion or the default case, and the line does not get longer
C36_FullLineNotLonger ==
    (/\ last.op = "InsertRune"
     /\ ~Faulted(last.e)
     /\ last.e.wordWrapAt > 0
     /\ Len(Line(last.e, DataY(last.e))) >= last.e.wordWrapAt)
        => /\ InsertRuneCase(last.e, last.r) \in {"full", "word", "space", "letter"}
           /\ Len(Line(editor, DataY(last.e))) <= Len(Line(last.e, DataY(last.e)))

\* A letter typed after the last rune of a full line that ends in a space
C36_LetterAfterSpace ==
    /\ last.op = "InsertRune"
    /\ ~Faulted(last.e)
    /\ Len(Line(last.e, DataY(last.e))) >= last.e.wordWrapAt
    /\ InsertRuneCase(last.e, last.r) = "letter"

\* C39: WrapAllLinesAt returns, and when it has returned no line has more
\* than wordWrapAt runes
C39_WrappedWithinLimit ==
    (last.op = "WrapAllLinesAt" /\ ~Faulted(editor))
        => \A k \in DOMAIN editor.lines : Len(editor.lines[k]) <= editor.wordWrapAt

\* --------------------------- SpecIcon: writing an icon and reading it back

\* The pixels of a row that the model writes and reads; the icon has 16
IconW == 2

\* lookupRunes: the gray level of a rune. The first rune is the underscore.
lookupRunes ==
    [r \in {"_", ",", ".", "'", "-", "~", "+", ":", "*", "<", "=", "!", "%", "{", "$", "@"} |->
        CASE r = "_" -> 0 [] r = "," -> 1 [] r = "." -> 2 [] r = "'" -> 3
          [] r = "-" -> 4 [] r = "~" -> 5 [] r = "+" -> 6 [] r = ":" -> 7
          [] r = "*" -> 8 [] r = "<" -> 9 [] r = "=" -> 10 [] r = "!" -> 11
          [] r = "%" -> 12 [] r = "{" -> 15 [] r = "$" -> 13 [] r = "@" -> 14]

\* lookupRunes[r] of Go: the level of the rune, 0 for a rune that is no key
LevelOf(r) == IF r \in DOMAIN lookupRunes THEN lookupRunes[r] ELSE 0

\* lookupLetters: the rune of a level
lookupLetters == [l \in 0..15 |-> CHOOSE r \in DOMAIN lookupRunes : lookupRunes[r] = l]

\* intensity = lookupRunes[r]*16 + 15, in a byte
Intensity(level) == (level * 16 + 15) % 256

\* The pixel that WriteFavicon sets at column x of a line of runes
WritePixel(runes, x) ==
    IF x * 2 < Len(runes)
    THEN IF runes[x * 2 + 1] = "T" THEN [r |-> 0, g |-> 0, b |-> 0, a |-> 0]
         ELSE LET intensity == Intensity(LevelOf(runes[x * 2 + 1]))
              IN  [r |-> intensity, g |-> intensity, b |-> intensity, a |-> 255]
    ELSE [r |-> 255, g |-> 255, b |-> 255, a |-> 0]

\* The 16-bit value that RGBA() returns for an 8-bit channel
Wide(v) == v * 257

\* EncodeGrayscale4bit: draw.Draw onto an image.Gray. The pixels that
\* WriteFavicon sets have r = g = b, for which the gray value
\* (19595*r + 38470*g + 7471*b + 1<<15) >> 24 is (65536*r + 1<<15) >> 24.
EncodeGrayscale4bit(im) ==
    [x \in DOMAIN im |->
        LET y == (((19595 + 38470 + 7471) \div 256) * Wide(im[x].r) + 128) \div 65536
        IN  [r |-> y, g |-> y, b |-> y, a |-> 255]]

\* png.Encode of the RGBA image: a pixel with alpha 0 is stored as 0, 0, 0, 0
EncodePng(im) ==
    [x \in DOMAIN im |->
        IF im[x].a = 0 THEN [r |-> 0, g |-> 0, b |-> 0, a |-> 0] ELSE im[x]]

\* WriteFavicon: the image of the first row of the text, as a .png file or
\* as an .ico file
WriteFavicon(runes, PNG) ==
    LET m == [x \in 1..IconW |-> WritePixel(runes, x - 1)]
    IN  IF PNG THEN EncodePng(m) ELSE EncodeGrayscale4bit(m)

\* A quantization that rounds to the nearest level
luma16Nearest(luma) ==
    LET l == (luma + 8) \div 16
    IN  IF l > 15 THEN 15 ELSE l

\* luma16 := int(math.Round(luma) / 16.0), at most 15
luma16(luma) ==
    LET l == luma \div 16
    IN  IF l > 15 THEN 15 ELSE l

\* math.Round of (0.2126*r + 0.7152*g + 0.0722*b) * (255.0 / 65535), where
\* 255 / 65535 is 1 / 257, in units of 1 / 10000
Luma(px) ==
    (2 * (2126 * Wide(px.r) + 7152 * Wide(px.g) + 722 * Wide(px.b)) + 2570000) \div 5140000

\* The two runes that ReadFavicon writes for a pixel
ReadPixel(px) ==
    IF px.a = 0 THEN <<"T", " ">>
    ELSE IF luma16(Luma(px)) = 0 THEN <<" ", " ">>
    ELSE <<lookupLetters[luma16(Luma(px))], " ">>

\* ReadFavicon: the row of text for a row of pixels
RECURSIVE ReadFavicon(_)
ReadFavicon(im) ==
    IF im = << >> THEN << >> ELSE ReadPixel(Head(im)) \o ReadFavicon(Tail(im))

\* The runes a user can put at a pixel: the 16 levels, T, a space, a letter
IconRune == DOMAIN lookupRunes \cup {"T", " ", "a"}

\* The rows of up to IconW pixels, each a rune and a space
RECURSIVE IconRows(_)
IconRows(n) ==
    IF n = 0 THEN {<< >>}
    ELSE IconRows(n - 1) \cup
         {row \o <<r, " ">> : row \in {w \in IconRows(n - 1) : Len(w) = 2 * (n - 1)},
                               r \in IconRune}

InitIcon ==
    /\ \E row \in IconRows(IconW) :
          editor = [NewEditor(TRUE) EXCEPT !.lines = (0 :> row)]
    /\ undo = NewUndo
    /\ taken = << >>
    /\ last = Did("Load", NewEditor(TRUE))
    /\ msg = ""
    /\ quit = FALSE
    /\ task = NoTask
    /\ file = NoFile
    /\ ops = 0

\* ctrl-s: WriteFavicon(mode, e.String(), filename, asOther)
DoWriteFavicon ==
    \E PNG \in BOOLEAN :
        /\ file' = [data |-> WriteFavicon(Line(editor, 0), PNG), of |-> Line(editor, 0)]
        /\ last' = [Did("WriteFavicon", editor) EXCEPT !.ret = PNG]
        /\ UNCHANGED <<editor, undo, taken, msg, quit, task, ops>>

\* Opening the file that was written: ReadFavicon(filename, false, PNG)
DoReadFavicon ==
    /\ file # NoFile
    /\ editor' = [NewEditor(TRUE) EXCEPT !.lines = (0 :> ReadFavicon(file.data))]
    /\ last' = Did("ReadFavicon", editor)
    /\ UNCHANGED <<undo, taken, msg, quit, task, ops, file>>

IconStep ==
    \/ DoWriteFavicon
    \/ DoReadFavicon

SpecIcon == InitIcon /\ [][IconStep]_vars

\* C40: for every gray level L in 0..15 the intensity L*16 + 15 that
\* WriteFavicon writes is in 15..255 and is not wrapped around in the byte, and
\* ReadFavicon quantizes a gray pixel of that intensity to L: a pixel written
\* from a rune of level L is read back as a rune of level L
C40_LevelsSurviveRoundTrip ==
    /\ \A L \in 0..15 :
          /\ Intensity(L) = L * 16 + 15
          /\ Intensity(L) >= 15
          /\ Intensity(L) <= 255
          /\ luma16(Luma([r |-> Intensity(L), g |-> Intensity(L), b |-> Intensity(L), a |-> 255])) = L
    /\ last.op = "ReadFavicon"
          => \A x \in 0..(IconW - 1) :
                (x * 2 < Len(file.of) /\ file.of[x * 2 + 1] \in DOMAIN lookupRunes)
                    => LevelOf(Line(editor, 0)[x * 2 + 1]) = LevelOf(file.of[x * 2 + 1])

\* An icon with a pixel of level 15 written and read back
C40_ReadBackBrightest ==
    /\ last.op = "ReadFavicon"
    /\ Len(file.of) > 0
    /\ file.of[1] = "{"
    /\ file.data[1] = [r |-> 255, g |-> 255, b |-> 255, a |-> 255]
    /\ Line(editor, 0)[1] = "{"

====
